---------------------------- MODULE Spec2Model ----------------------------
(***************************************************************************)
(* Model of the NexStar serial protocol driver (src/src/lib.rs).           *)
(*                                                                         *)
(* One public operation is in flight at a time.  An operation writes its   *)
(* request frame word by word (bwrite_all), flushes (bflush), reads its    *)
(* payload with blocking single-byte reads, and ends with check_ack.       *)
(* The transport is the environment: every read delivers a byte, reports   *)
(* would-block (block! polls again) or fails; every word write and the     *)
(* flush complete or fail.                                                 *)
(*                                                                         *)
(* Degrees are fixed-point: a Location axis is an integer number of        *)
(* 1/Scale degree, and a decoded axis is an integer number of arcseconds.  *)
(* f32 rounding is not modelled.                                           *)
(***************************************************************************)
EXTENDS Integers, Sequences, FiniteSets, TLC

VARIABLES
    pc,         \* position of the driver: idle, write, flush, payload, ack, drain, done
    op,         \* the public operation in flight
    arg,        \* its argument (a record holding a Device, a Location, a DateTime) or NoArg
    frame,      \* the request buffer handed to write_all
    tx,         \* the words the writer has accepted during this call
    flushes,    \* flushes the writer has completed during this call
    wcalls,     \* word writes that returned (Ok or Err) during this call
    fcalls,     \* flushes that returned (Ok or Err) during this call
    txerr,      \* the error the writer reported during this call, or "none"
    buffer,     \* payload bytes read so far
    ack,        \* the byte read in the acknowledgment position, or NoByte
    rx,         \* the bytes the reader has delivered during this call, in order
    rcalls,     \* blocking reads that returned (a byte or an error) during this call
    rxerr,      \* the error the reader reported during this call, or "none"
    polls,      \* would-block results of the read that is blocking now
    result,     \* the value the operation returns
    wire,       \* bytes a hand controller has sent and the reader has not delivered yet
    devloc,     \* the 8 location bytes the hand controller holds
    devtime,    \* the 8 date and time bytes the hand controller holds
    lastloc,    \* the Location of the last set_location the hand controller accepted
    lasttime,   \* the DateTime of the last set_datetime the hand controller accepted
    prev        \* how the previous call on this line ended: the kind of its result

vars ==
    <<pc, op, arg, frame, tx, flushes, wcalls, fcalls, txerr, buffer, ack, rx, rcalls, rxerr,
      polls, result, wire, devloc, devtime, lastloc, lasttime, prev>>

\* the hand controller at the other end of the line
devvars == <<wire, devloc, devtime, lastloc, lasttime, prev>>

\* bytes consumed from the reader during this call
nread == Len(rx)

---------------------------------------------------------------------------
(* Bounds and sample inputs *)

MaxPolls == 1

Byte == 0..255

NoByte == -1
NoArg == [none |-> TRUE]

ReadErrors == {"rx_overrun", "rx_framing"}
WriteErrors == {"tx_full", "tx_closed"}

\* fixed-point units per degree: a quarter of an arcsecond
Scale == 4 * 3600

\* bytes a version answer is drawn from
VersionBytes == {0, 1, 4, 22, 35, 255}
\* bytes the acknowledgment position is drawn from
AckBytes == {35, 0, 34, 255}
\* bytes the error code after a bad acknowledgment is drawn from
ErrorCodeBytes == {0, 35}
DegBytes == {0, 33, 151, 255}
MinBytes == {12, 51}
SecBytes == {36, 54}
SignBytes == {0, 1, 2}
TimeBytes == {0, 59}
ZoneBytes == {0, 5, 127, 128, 251, 255}
DstBytes == {0, 1, 2}

\* -33.865 degrees is -487656 units, 151.21 degrees is 2177424 units
Latitudes == {-90 * Scale, -487656, -2, 0, 239, 487656, 90 * Scale}
Longitudes == {-180 * Scale, -2177424, 0, 14399, 2177424, 180 * Scale}
\* every latitude around 0, around the first whole degree and up to 90 degrees
DenseLatitudes ==
    (-250..250) \cup ((Scale - 130)..(Scale + 10)) \cup ((90 * Scale - 20)..(90 * Scale))
Locations ==
    [latitude : Latitudes, longitude : Longitudes]
        \cup [latitude : DenseLatitudes, longitude : {0}]

\* what a hand controller at the other end is given and answers
DevLocations == [latitude : {-487656, 4, 90 * Scale}, longitude : {-2177424, 2177424}]
DevDateTimes ==
    [hour : {0, 23}, minutes : {59}, seconds : {30}, zone : {-128, -5, 127},
     daylight_saving : BOOLEAN, year : {255}, month : {12}, day : {31}]
DevVersionBytes == {1, 35}
DevModelBytes == {1, 153}
DevStatusBytes == {0, 1, 49}
\* a byte that is not '#' in the acknowledgment position, and the error code after it
DevErrorAnswers == {<<34, 35>>, <<255, 0>>}

DateTimes ==
    [hour : {0, 23}, minutes : {59}, seconds : {0, 30}, zone : {-128, -5, 0, 5, 127},
     daylight_saving : BOOLEAN, year : {0, 255}, month : {1, 12}, day : {31}]

---------------------------------------------------------------------------
(* Types and pure functions of the driver *)

Devices == {"MainBoard", "HandController", "AzmRaMotor", "AltDecMotor", "GPSUnit", "RTC"}

\* Device_bits with the two motor addresses exchanged
Device_bits_swapped(d) ==
    CASE d = "MainBoard" -> 1
      [] d = "HandController" -> 4
      [] d = "AzmRaMotor" -> 17
      [] d = "AltDecMotor" -> 16
      [] d = "GPSUnit" -> 176
      [] d = "RTC" -> 178

Device_bits(d) ==
    CASE d = "MainBoard" -> 1
      [] d = "HandController" -> 4
      [] d = "AzmRaMotor" -> 16
      [] d = "AltDecMotor" -> 17
      [] d = "GPSUnit" -> 176
      [] d = "RTC" -> 178

Command_bits == 254

\* `x as u8` of a non-negative number: saturating
as_u8(x) == IF x > 255 THEN 255 ELSE IF x < 0 THEN 0 ELSE x

\* `x as i8` of a byte: two's complement reinterpretation
u8_as_i8(b) == IF b >= 128 THEN b - 256 ELSE b

\* `x as u8` of an i8: two's complement reinterpretation
i8_as_u8(z) == (z + 256) % 256

bool_as_u8(f) == IF f THEN 1 ELSE 0

\* dec_dms with the seconds truncated: the + 0.5 is missing
dec_dms_truncated(dec) ==
    LET sign == IF dec < 0 THEN 0 ELSE 1
        mag == IF dec < 0 THEN -dec ELSE dec
        deg == as_u8(mag \div Scale)
        minNum == (mag - deg * Scale) * 60
        minInt == as_u8(minNum \div Scale)
        secNum == 2 * 60 * (minNum - minInt * Scale)
        sec == as_u8(secNum \div (2 * Scale))
    IN  <<deg, minInt, sec, sign>>

dec_dms(dec) ==
    LET sign == IF dec < 0 THEN 0 ELSE 1
        mag == IF dec < 0 THEN -dec ELSE dec
        deg == as_u8(mag \div Scale)
        \* min = (mag - deg) * 60, kept as the numerator over Scale
        minNum == (mag - deg * Scale) * 60
        minInt == as_u8(minNum \div Scale)
        \* (min - min as u8) * 60 + 0.5, as the numerator over 2 * Scale
        secNum == 2 * 60 * (minNum - minInt * Scale) + Scale
        sec == as_u8(secNum \div (2 * Scale))
    IN  <<deg, minInt, sec, sign>>

lat_dms(loc) == dec_dms(loc.latitude)
lon_dms(loc) == dec_dms(loc.longitude)

\* ModelOf with the arms of CPC and GT exchanged
ModelOf_swapped(b) ==
    CASE b = 1 -> [tag |-> "GPSSeries", id |-> NoByte]
      [] b = 3 -> [tag |-> "ISeries", id |-> NoByte]
      [] b = 4 -> [tag |-> "ISeriesSE", id |-> NoByte]
      [] b = 5 -> [tag |-> "CGE", id |-> NoByte]
      [] b = 6 -> [tag |-> "AdvancedGT", id |-> NoByte]
      [] b = 7 -> [tag |-> "SLT", id |-> NoByte]
      [] b = 9 -> [tag |-> "GT", id |-> NoByte]
      [] b = 10 -> [tag |-> "CPC", id |-> NoByte]
      [] b = 11 -> [tag |-> "Se4_5", id |-> NoByte]
      [] b = 12 -> [tag |-> "Se6_8", id |-> NoByte]
      [] OTHER -> [tag |-> "Unknown", id |-> b]

ModelOf(b) ==
    CASE b = 1 -> [tag |-> "GPSSeries", id |-> NoByte]
      [] b = 3 -> [tag |-> "ISeries", id |-> NoByte]
      [] b = 4 -> [tag |-> "ISeriesSE", id |-> NoByte]
      [] b = 5 -> [tag |-> "CGE", id |-> NoByte]
      [] b = 6 -> [tag |-> "AdvancedGT", id |-> NoByte]
      [] b = 7 -> [tag |-> "SLT", id |-> NoByte]
      [] b = 9 -> [tag |-> "CPC", id |-> NoByte]
      [] b = 10 -> [tag |-> "GT", id |-> NoByte]
      [] b = 11 -> [tag |-> "Se4_5", id |-> NoByte]
      [] b = 12 -> [tag |-> "Se6_8", id |-> NoByte]
      [] OTHER -> [tag |-> "Unknown", id |-> b]

Ok(v) == [kind |-> "Ok", val |-> v, err |-> "none"]
UnexpectedResponse == [kind |-> "UnexpectedResponse", val |-> NoArg, err |-> "none"]
ReadError(e) == [kind |-> "Read", val |-> NoArg, err |-> e]
WriteError(e) == [kind |-> "Write", val |-> NoArg, err |-> e]
NoResult == [kind |-> "none", val |-> NoArg, err |-> "none"]
Unit == [unit |-> TRUE]

Operations ==
    {"version", "device_version", "model", "is_alignment_complete",
     "is_goto_in_progress", "location", "set_location", "datetime", "set_datetime"}

\* PayloadLen with a third byte read for a version
PayloadLen_long(o) ==
    CASE o \in {"version", "device_version"} -> 3
      [] o \in {"model", "is_alignment_complete", "is_goto_in_progress"} -> 1
      [] o \in {"location", "datetime"} -> 8
      [] OTHER -> 0

\* the bytes an operation reads before check_ack
PayloadLen(o) ==
    CASE o \in {"version", "device_version"} -> 2
      [] o \in {"model", "is_alignment_complete", "is_goto_in_progress"} -> 1
      [] o \in {"location", "datetime"} -> 8
      [] OTHER -> 0

\* the request buffers
version_cmd == <<86>>
model_cmd == <<109>>
is_alignment_complete_cmd == <<74>>
is_goto_in_progress_cmd == <<76>>
location_cmd == <<119>>
datetime_cmd == <<104>>

device_version_cmd(device) ==
    <<80, 1, Device_bits(device), Command_bits, 0, 0, 0, 2>>

set_location_buffer(loc) == <<87>> \o lat_dms(loc) \o lon_dms(loc)

\* set_datetime_buffer with month and day exchanged
set_datetime_buffer_swapped(dt) ==
    <<72, dt.hour, dt.minutes, dt.seconds, dt.day, dt.month, dt.year,
      i8_as_u8(dt.zone), bool_as_u8(dt.daylight_saving)>>

set_datetime_buffer(dt) ==
    <<72, dt.hour, dt.minutes, dt.seconds, dt.month, dt.day, dt.year,
      i8_as_u8(dt.zone), bool_as_u8(dt.daylight_saving)>>

\* the values built from the payload once check_ack has returned Ok
\* read_version_value with major and minor exchanged
read_version_value_swapped(buf) == Ok([major |-> buf[2], minor |-> buf[1]])

read_version_value(buf) == Ok([major |-> buf[1], minor |-> buf[2]])

model_value(buf) == Ok(ModelOf(buf[1]))

\* is_alignment_complete_value comparing with ASCII '1', as is_goto_in_progress does
is_alignment_complete_value_ascii(buf) == Ok(buf[1] = 49)

is_alignment_complete_value(buf) == Ok(buf[1] = 1)

\* is_goto_in_progress_value rejecting a status byte that is neither '0' nor '1'
is_goto_in_progress_value_strict(buf) ==
    IF buf[1] \in {48, 49} THEN Ok(buf[1] = 49) ELSE UnexpectedResponse

is_goto_in_progress_value(buf) == Ok(buf[1] = 49)

\* one axis in arcseconds: deg + min / 60 + sec / 3600 degrees
dms_arcsec(buf, i) == buf[i] * 3600 + buf[i + 1] * 60 + buf[i + 2]

location_value(buf) ==
    LET latitude == dms_arcsec(buf, 1)
        longitude == dms_arcsec(buf, 5)
    IN  IF buf[4] \notin {0, 1} THEN UnexpectedResponse
        ELSE IF buf[8] \notin {0, 1} THEN UnexpectedResponse
        ELSE Ok([latitude |-> IF buf[4] = 0 THEN latitude ELSE -latitude,
                 longitude |-> IF buf[8] = 0 THEN longitude ELSE -longitude])

\* datetime_value keeping the zone byte unsigned
datetime_value_unsigned_zone(buf) ==
    Ok([hour |-> buf[1], minutes |-> buf[2], seconds |-> buf[3],
        zone |-> buf[7], daylight_saving |-> (buf[8] = 1),
        year |-> buf[6], month |-> buf[4], day |-> buf[5]])

datetime_value(buf) ==
    Ok([hour |-> buf[1], minutes |-> buf[2], seconds |-> buf[3],
        zone |-> u8_as_i8(buf[7]), daylight_saving |-> (buf[8] = 1),
        year |-> buf[6], month |-> buf[4], day |-> buf[5]])

\* what operation o returns after a '#' acknowledgment
Returns(o, buf) ==
    CASE o \in {"version", "device_version"} -> read_version_value(buf)
      [] o = "model" -> model_value(buf)
      [] o = "is_alignment_complete" -> is_alignment_complete_value(buf)
      [] o = "is_goto_in_progress" -> is_goto_in_progress_value(buf)
      [] o = "location" -> location_value(buf)
      [] o = "datetime" -> datetime_value(buf)
      [] OTHER -> Ok(Unit)

\* the bytes the reader may deliver as the i-th payload byte of operation o
RxBytes(o, i) ==
    CASE o \in {"version", "device_version"} -> VersionBytes
      [] o \in {"model", "is_alignment_complete", "is_goto_in_progress"} -> Byte
      [] o = "location" ->
            IF i \in {1, 5} THEN DegBytes
            ELSE IF i \in {2, 6} THEN MinBytes
            ELSE IF i \in {3, 7} THEN SecBytes
            ELSE SignBytes
      [] o = "datetime" ->
            IF i = 7 THEN ZoneBytes ELSE IF i = 8 THEN DstBytes ELSE TimeBytes
      [] OTHER -> {}

---------------------------------------------------------------------------
(* The state machine *)

Init ==
    /\ pc = "idle"
    /\ op = "none"
    /\ arg = NoArg
    /\ frame = <<>>
    /\ tx = <<>>
    /\ flushes = 0
    /\ wcalls = 0
    /\ fcalls = 0
    /\ txerr = "none"
    /\ buffer = <<>>
    /\ ack = NoByte
    /\ rx = <<>>
    /\ rcalls = 0
    /\ rxerr = "none"
    /\ polls = 0
    /\ result = NoResult
    /\ wire = <<>>
    /\ devloc = <<0, 0, 0, 0, 0, 0, 0, 0>>
    /\ devtime = <<0, 0, 0, 1, 1, 0, 0, 0>>
    /\ lastloc = NoArg
    /\ lasttime = NoArg
    /\ prev = "none"

\* entry of a public operation: the request buffer is built and write_all begins
Start(o, a, f) ==
    /\ pc = "idle"
    /\ op' = o
    /\ arg' = a
    /\ frame' = f
    /\ pc' = "write"
    /\ UNCHANGED <<tx, flushes, wcalls, fcalls, txerr, buffer, ack, rx, rcalls, rxerr, polls,
                   result>>
    /\ UNCHANGED devvars

version == Start("version", NoArg, version_cmd)

device_version ==
    \E d \in Devices : Start("device_version", [device |-> d], device_version_cmd(d))

model == Start("model", NoArg, model_cmd)

is_alignment_complete == Start("is_alignment_complete", NoArg, is_alignment_complete_cmd)

is_goto_in_progress == Start("is_goto_in_progress", NoArg, is_goto_in_progress_cmd)

location == Start("location", NoArg, location_cmd)

set_location == \E loc \in Locations : Start("set_location", loc, set_location_buffer(loc))

datetime == Start("datetime", NoArg, datetime_cmd)

set_datetime == \E dt \in DateTimes : Start("set_datetime", dt, set_datetime_buffer(dt))

\* write_all, first half: bwrite_all hands the next word to the writer
bwrite_all ==
    /\ pc = "write"
    /\ tx' = Append(tx, frame[Len(tx) + 1])
    /\ wcalls' = wcalls + 1
    /\ pc' = IF Len(tx) + 1 = Len(frame) THEN "flush" ELSE "write"
    /\ UNCHANGED <<op, arg, frame, flushes, fcalls, txerr, buffer, ack, rx, rcalls, rxerr,
                   polls, result>>
    /\ UNCHANGED devvars

\* bwrite_all_err with the error of bwrite_all dropped: write_all goes on to flush
bwrite_all_err_ignored ==
    /\ pc = "write"
    /\ \E e \in WriteErrors : txerr' = e
    /\ wcalls' = wcalls + 1
    /\ pc' = "flush"
    /\ UNCHANGED <<op, arg, frame, tx, flushes, fcalls, buffer, ack, rx, rcalls, rxerr, polls,
                   result>>
    /\ UNCHANGED devvars

\* the writer rejects a word: write_all returns Write(e) and skips the flush
bwrite_all_err ==
    /\ pc = "write"
    /\ \E e \in WriteErrors :
        /\ txerr' = e
        /\ result' = WriteError(e)
    /\ wcalls' = wcalls + 1
    /\ pc' = "done"
    /\ UNCHANGED <<op, arg, frame, tx, flushes, fcalls, buffer, ack, rx, rcalls, rxerr, polls>>
    /\ UNCHANGED devvars

\* write_all, second half: bflush returns Ok and the operation goes on to read
Flushed ==
    /\ pc = "flush"
    /\ flushes' = flushes + 1
    /\ fcalls' = fcalls + 1
    /\ pc' = IF PayloadLen(op) = 0 THEN "ack" ELSE "payload"
    /\ UNCHANGED <<op, arg, frame, tx, wcalls, txerr, buffer, ack, rx, rcalls, rxerr, polls,
                   result>>

bflush ==
    /\ Flushed
    /\ UNCHANGED devvars

\* the flush fails: write_all returns Write(e)
bflush_err ==
    /\ pc = "flush"
    /\ \E e \in WriteErrors :
        /\ txerr' = e
        /\ result' = WriteError(e)
    /\ fcalls' = fcalls + 1
    /\ pc' = "done"
    /\ UNCHANGED <<op, arg, frame, tx, flushes, wcalls, buffer, ack, rx, rcalls, rxerr, polls>>
    /\ UNCHANGED devvars

Reading == pc \in {"payload", "ack", "drain"}

\* read_would_block giving up once the reader has had no byte MaxPolls times
read_would_block_timeout ==
    /\ Reading
    /\ IF polls < MaxPolls
       THEN /\ polls' = polls + 1
            /\ UNCHANGED <<pc, result>>
       ELSE /\ polls' = 0
            /\ pc' = "done"
            /\ result' = UnexpectedResponse
    /\ UNCHANGED <<op, arg, frame, tx, flushes, wcalls, fcalls, txerr, buffer, ack, rx,
                   rcalls, rxerr>>
    /\ UNCHANGED devvars

\* read: the reader has no byte yet, block! polls again
read_would_block ==
    /\ Reading
    /\ polls < MaxPolls
    /\ polls' = polls + 1
    /\ UNCHANGED <<pc, op, arg, frame, tx, flushes, wcalls, fcalls, txerr, buffer, ack, rx,
                   rcalls, rxerr, result>>
    /\ UNCHANGED devvars

\* read_err with the failed read tried again instead of returned
read_err_retry ==
    /\ Reading
    /\ \E e \in ReadErrors : rxerr' = e
    /\ rcalls' = rcalls + 1
    /\ polls' = 0
    /\ UNCHANGED <<pc, op, arg, frame, tx, flushes, wcalls, fcalls, txerr, buffer, ack, rx,
                   result>>
    /\ UNCHANGED devvars

\* read_err with the request sent again after a failed read
read_err_resend ==
    /\ Reading
    /\ \E e \in ReadErrors : rxerr' = e
    /\ rcalls' = rcalls + 1
    /\ polls' = 0
    /\ tx' = <<>>
    /\ pc' = "write"
    /\ UNCHANGED <<op, arg, frame, flushes, wcalls, fcalls, txerr, buffer, ack, rx, result>>
    /\ UNCHANGED devvars

\* read: the reader fails, the operation returns Read(e) through every `?`
read_err ==
    /\ Reading
    /\ \E e \in ReadErrors :
        /\ rxerr' = e
        /\ result' = ReadError(e)
    /\ rcalls' = rcalls + 1
    /\ polls' = 0
    /\ pc' = "done"
    /\ UNCHANGED <<op, arg, frame, tx, flushes, wcalls, fcalls, txerr, buffer, ack, rx>>
    /\ UNCHANGED devvars

\* a payload byte arrives and is stored
ReadInto(b) ==
    /\ pc = "payload"
    /\ rx' = Append(rx, b)
    /\ buffer' = Append(buffer, b)
    /\ rcalls' = rcalls + 1
    /\ polls' = 0
    /\ pc' = IF Len(buffer) + 1 = PayloadLen(op) THEN "ack" ELSE "payload"
    /\ UNCHANGED <<op, arg, frame, tx, flushes, wcalls, fcalls, txerr, ack, rxerr, result>>

\* read_version: major, then minor
read_version ==
    /\ op \in {"version", "device_version"}
    /\ \E b \in RxBytes(op, Len(buffer) + 1) : ReadInto(b)
    /\ UNCHANGED devvars

\* read_multiple: the 8-byte buffers of location and datetime
read_multiple ==
    /\ op \in {"location", "datetime"}
    /\ \E b \in RxBytes(op, Len(buffer) + 1) : ReadInto(b)
    /\ UNCHANGED devvars

\* the single read of model, is_alignment_complete and is_goto_in_progress
read_one ==
    /\ op \in {"model", "is_alignment_complete", "is_goto_in_progress"}
    /\ \E b \in RxBytes(op, Len(buffer) + 1) : ReadInto(b)
    /\ UNCHANGED devvars

\* check_ack returning UnexpectedResponse without consuming the additional byte
check_ack_no_drain ==
    /\ pc = "ack"
    /\ \E b \in AckBytes :
        /\ rx' = Append(rx, b)
        /\ ack' = b
        /\ result' = IF b = 35 THEN Returns(op, buffer) ELSE UnexpectedResponse
    /\ pc' = "done"
    /\ rcalls' = rcalls + 1
    /\ polls' = 0
    /\ UNCHANGED <<op, arg, frame, tx, flushes, wcalls, fcalls, txerr, buffer, rxerr>>
    /\ UNCHANGED devvars

\* CheckAck returning UnexpectedResponse without consuming the additional byte
CheckAck_no_drain(b) ==
    /\ pc = "ack"
    /\ rx' = Append(rx, b)
    /\ ack' = b
    /\ result' = IF b = 35 THEN Returns(op, buffer) ELSE UnexpectedResponse
    /\ pc' = "done"
    /\ rcalls' = rcalls + 1
    /\ polls' = 0
    /\ UNCHANGED <<op, arg, frame, tx, flushes, wcalls, fcalls, txerr, buffer, rxerr>>

\* check_ack: byte b arrives in the acknowledgment position
CheckAck(b) ==
    /\ pc = "ack"
    /\ rx' = Append(rx, b)
    /\ ack' = b
    /\ IF b = 35
       THEN /\ result' = Returns(op, buffer)
            /\ pc' = "done"
       ELSE /\ result' = result
            /\ pc' = "drain"
    /\ rcalls' = rcalls + 1
    /\ polls' = 0
    /\ UNCHANGED <<op, arg, frame, tx, flushes, wcalls, fcalls, txerr, buffer, rxerr>>

\* check_ack: the additional byte b sent with an error is consumed
CheckAckDrain(b) ==
    /\ pc = "drain"
    /\ rx' = Append(rx, b)
    /\ result' = UnexpectedResponse
    /\ rcalls' = rcalls + 1
    /\ polls' = 0
    /\ pc' = "done"
    /\ UNCHANGED <<op, arg, frame, tx, flushes, wcalls, fcalls, txerr, buffer, ack, rxerr>>

\* check_ack: the acknowledgment byte arrives
check_ack ==
    /\ \E b \in AckBytes : CheckAck(b)
    /\ UNCHANGED devvars

\* check_ack: the additional byte sent with an error is consumed
check_ack_drain ==
    /\ \E b \in ErrorCodeBytes : CheckAckDrain(b)
    /\ UNCHANGED devvars

\* the caller takes the result; the driver keeps nothing from the call
Returning ==
    /\ pc = "done"
    /\ pc' = "idle"
    /\ op' = "none"
    /\ arg' = NoArg
    /\ frame' = <<>>
    /\ tx' = <<>>
    /\ flushes' = 0
    /\ wcalls' = 0
    /\ fcalls' = 0
    /\ txerr' = "none"
    /\ buffer' = <<>>
    /\ ack' = NoByte
    /\ rx' = <<>>
    /\ rcalls' = 0
    /\ rxerr' = "none"
    /\ polls' = 0
    /\ result' = NoResult

Return ==
    /\ Returning
    /\ UNCHANGED devvars

Next ==
    \/ version
    \/ device_version
    \/ model
    \/ is_alignment_complete
    \/ is_goto_in_progress
    \/ location
    \/ set_location
    \/ datetime
    \/ set_datetime
    \/ bwrite_all
    \/ bwrite_all_err
    \/ bflush
    \/ bflush_err
    \/ read_would_block
    \/ read_err
    \/ read_version
    \/ read_multiple
    \/ read_one
    \/ check_ack
    \/ check_ack_drain
    \/ Return

Spec == Init /\ [][Next]_vars

\* a blocking transport call that returns: a word write, the flush or a read
\* completes with Ok, a byte or an error
TransportCompletes ==
    \/ bwrite_all
    \/ bwrite_all_err
    \/ bflush
    \/ bflush_err
    \/ read_err
    \/ read_version
    \/ read_multiple
    \/ read_one
    \/ check_ack
    \/ check_ack_drain

\* the driver on a transport whose every blocking call eventually completes;
\* a call that completes changes the position or one of the call counts
SpecFair == Spec /\ WF_<<pc, rcalls, wcalls, fcalls>>(TransportCompletes)

---------------------------------------------------------------------------
(* The driver connected to a hand controller.  The hand controller answers   *)
(* a request when the flush delivers it: the full-length payload, then '#',  *)
(* or the payload, a byte that is not '#' and one error code.  It keeps the  *)
(* payload of the last set_location and set_datetime it acknowledged and     *)
(* answers location() and datetime() with them.  No transport call fails.    *)

\* the payloads the hand controller may send in answer to request f
HcPayloads(f) ==
    CASE f[1] \in {86, 80} -> {<<a, b>> : a \in DevVersionBytes, b \in DevVersionBytes}
      [] f[1] = 109 -> {<<b>> : b \in DevModelBytes}
      [] f[1] \in {74, 76} -> {<<b>> : b \in DevStatusBytes}
      [] f[1] = 119 -> {devloc}
      [] f[1] = 104 -> {devtime}
      [] OTHER -> {<<>>}

set_location_hc == \E loc \in DevLocations : Start("set_location", loc, set_location_buffer(loc))

set_datetime_hc == \E dt \in DevDateTimes : Start("set_datetime", dt, set_datetime_buffer(dt))

\* the flush delivers the request; the hand controller carries it out and
\* answers with its payload and '#'
hc_accepts ==
    /\ Flushed
    /\ \E p \in HcPayloads(tx) : wire' = wire \o p \o <<35>>
    /\ devloc' = IF tx[1] = 87 THEN SubSeq(tx, 2, 9) ELSE devloc
    /\ lastloc' = IF tx[1] = 87 THEN arg ELSE lastloc
    /\ devtime' = IF tx[1] = 72 THEN SubSeq(tx, 2, 9) ELSE devtime
    /\ lasttime' = IF tx[1] = 72 THEN arg ELSE lasttime
    /\ prev' = prev

\* the flush delivers the request; the hand controller answers with an error
hc_rejects ==
    /\ Flushed
    /\ \E p \in HcPayloads(tx) : \E e \in DevErrorAnswers : wire' = wire \o p \o e
    /\ UNCHANGED <<devloc, devtime, lastloc, lasttime, prev>>

\* read_version, read_multiple and the single reads take the next byte sent
read_payload_hc ==
    /\ wire # <<>>
    /\ ReadInto(Head(wire))
    /\ wire' = Tail(wire)
    /\ UNCHANGED <<devloc, devtime, lastloc, lasttime, prev>>

check_ack_hc ==
    /\ wire # <<>>
    /\ CheckAck(Head(wire))
    /\ wire' = Tail(wire)
    /\ UNCHANGED <<devloc, devtime, lastloc, lasttime, prev>>

check_ack_drain_hc ==
    /\ wire # <<>>
    /\ CheckAckDrain(Head(wire))
    /\ wire' = Tail(wire)
    /\ UNCHANGED <<devloc, devtime, lastloc, lasttime, prev>>

\* the caller takes the result and goes on to its next call
return_hc ==
    /\ Returning
    /\ prev' = result.kind
    /\ UNCHANGED <<wire, devloc, devtime, lastloc, lasttime>>

NextHc ==
    \/ version
    \/ device_version
    \/ model
    \/ is_alignment_complete
    \/ is_goto_in_progress
    \/ location
    \/ set_location_hc
    \/ datetime
    \/ set_datetime_hc
    \/ bwrite_all
    \/ hc_accepts
    \/ hc_rejects
    \/ read_payload_hc
    \/ check_ack_hc
    \/ check_ack_drain_hc
    \/ return_hc

SpecHc == Init /\ [][NextHc]_vars

---------------------------------------------------------------------------
(* Properties *)

\* the operation has returned to its caller
Returned == pc = "done"

\* every byte the operation asked for was delivered and every write completed
NoTransportError == rxerr = "none" /\ txerr = "none"

\* C1: for every public operation, once the request is written and the byte in
\* the acknowledgment position is not '#', the driver attempts exactly one more
\* read; when the transport delivers that byte the operation returns
\* UnexpectedResponse having consumed payload length + 2 bytes, never more and
\* never fewer.
C1_AckMismatchDrainsOneByte ==
    /\ nread <= PayloadLen(op) + 2
    /\ (pc = "drain") => (nread = PayloadLen(op) + 1 /\ ack # 35 /\ result = NoResult)
    /\ (Returned /\ ack # NoByte /\ ack # 35) =>
          /\ op \in Operations
          /\ tx = frame /\ flushes = 1
          /\ ack = rx[PayloadLen(op) + 1]
          /\ rcalls = PayloadLen(op) + 2
          /\ (rxerr = "none") =>
                (result = UnexpectedResponse /\ nread = PayloadLen(op) + 2)

C1_Witness ==
    /\ Returned
    /\ op = "set_location"
    /\ ack = 255
    /\ result = UnexpectedResponse
    /\ rx = <<255, 0>>

\* C2: location() on an 8-byte payload followed by '#' returns, per axis, the
\* magnitude deg*3600 + min*60 + sec arcseconds, negated if and only if that
\* axis's sign byte is 0x00.
C2_LocationNegatedOnSignZero ==
    (/\ Returned /\ op = "location" /\ NoTransportError /\ ack = 35
     /\ rx[4] \in {0, 1} /\ rx[8] \in {0, 1}) =>
        /\ result.kind = "Ok"
        /\ result.val.latitude =
              (IF rx[4] = 0 THEN -1 ELSE 1) * (rx[1] * 3600 + rx[2] * 60 + rx[3])
        /\ result.val.longitude =
              (IF rx[8] = 0 THEN -1 ELSE 1) * (rx[5] * 3600 + rx[6] * 60 + rx[7])

\* C3 as stated: whenever an operation returns UnexpectedResponse, the byte
\* read in the acknowledgment position was not '#' and exactly one more byte
\* was consumed after it.
C3_UnexpectedResponseOnlyOnAckMismatch ==
    (Returned /\ result.kind = "UnexpectedResponse") =>
        /\ ack # NoByte /\ ack # 35
        /\ nread = PayloadLen(op) + 2

\* C3 amended: whenever an operation returns UnexpectedResponse, either the
\* byte read in the acknowledgment position was not '#' and exactly one more
\* byte was consumed after it, or the operation is location(), the
\* acknowledgment was '#', a sign byte of the payload is neither 0x00 nor
\* 0x01, and exactly the 9 bytes of the response were consumed.  No other
\* operation returns UnexpectedResponse after a '#'.
C3_UnexpectedResponseCauses ==
    /\ (Returned /\ result.kind = "UnexpectedResponse") =>
          \/ /\ ack # NoByte /\ ack # 35
             /\ ack = rx[PayloadLen(op) + 1]
             /\ nread = PayloadLen(op) + 2
             /\ rcalls = nread
          \/ /\ op = "location"
             /\ ack = 35 /\ rx[9] = 35
             /\ (rx[4] \notin {0, 1} \/ rx[8] \notin {0, 1})
             /\ nread = 9
             /\ rcalls = nread
    /\ (Returned /\ ack = 35 /\ op # "location") => result.kind = "Ok"
    /\ (/\ Returned /\ ack = 35 /\ op = "location"
        /\ rx[4] \in {0, 1} /\ rx[8] \in {0, 1}) => result.kind = "Ok"

C3_Witness ==
    /\ Returned
    /\ op = "location"
    /\ ack = 35
    /\ rx[4] = 2
    /\ result = UnexpectedResponse

\* C4: for every public operation and every k, if the k-th blocking read of
\* the call fails with transport error e, the operation returns Read(e), makes
\* no further read and no write, and has consumed exactly the k-1 bytes read
\* before the failure.
C4_ReadErrorReturnsAtOnce ==
    (rxerr # "none") =>
        /\ Returned
        /\ result = ReadError(rxerr)
        /\ nread = rcalls - 1
        /\ polls = 0
        /\ tx = frame /\ wcalls = Len(frame)
        /\ flushes = 1 /\ fcalls = 1
        /\ txerr = "none"

\* the read that fails is the drain read of location(): k = 10
C4_Witness ==
    /\ Returned
    /\ op = "location"
    /\ rxerr = "rx_framing"
    /\ result = ReadError("rx_framing")
    /\ rcalls = 10
    /\ nread = 9
    /\ ack = 255

\* C5: for every public operation, if writing the request frame or the flush
\* after it fails with transport error e, the operation returns Write(e) and
\* reads nothing; a failed write also suppresses the flush.
C5_WriteErrorReturnsAtOnce ==
    (txerr # "none") =>
        /\ Returned
        /\ result = WriteError(txerr)
        /\ rcalls = 0 /\ nread = 0 /\ polls = 0
        /\ buffer = <<>> /\ ack = NoByte
        /\ flushes = 0
        /\ (Len(tx) < Len(frame)) => (fcalls = 0 /\ wcalls = Len(tx) + 1)
        /\ (Len(tx) = Len(frame)) => (fcalls = 1 /\ wcalls = Len(tx))

\* the fourth word of a device_version frame is rejected
C5_Witness ==
    /\ Returned
    /\ op = "device_version"
    /\ txerr = "tx_closed"
    /\ result = WriteError("tx_closed")
    /\ Len(tx) = 3
    /\ fcalls = 0
    /\ nread = 0

\* C6: for every Device and all bytes major, minor, when the transport
\* delivers (major, minor, '#'), device_version returns Ok(Version{major,
\* minor}) with the bytes in that order and unmodified, and so does version();
\* when the third byte is not '#' the result is UnexpectedResponse.
C6_VersionAnswer ==
    (Returned /\ op \in {"version", "device_version"} /\ NoTransportError) =>
        /\ (op = "device_version") => arg.device \in Devices
        /\ (rx[3] = 35) =>
              (result = Ok([major |-> rx[1], minor |-> rx[2]]) /\ nread = 3)
        /\ (rx[3] # 35) => result = UnexpectedResponse

C6_Witness ==
    /\ Returned
    /\ op = "device_version"
    /\ arg.device = "RTC"
    /\ rx = <<4, 22, 35>>
    /\ result = Ok([major |-> 4, minor |-> 22])

\* C7: for every model-id byte b followed by '#', model() returns Ok: the ten
\* assigned ids give their model and every other b gives Unknown(b) carrying
\* the byte read.
C7_ModelDecoding ==
    (Returned /\ op = "model" /\ NoTransportError /\ rx[2] = 35) =>
        LET b == rx[1]
            known == {<<1, "GPSSeries">>, <<3, "ISeries">>, <<4, "ISeriesSE">>,
                      <<5, "CGE">>, <<6, "AdvancedGT">>, <<7, "SLT">>, <<9, "CPC">>,
                      <<10, "GT">>, <<11, "Se4_5">>, <<12, "Se6_8">>}
        IN  /\ result.kind = "Ok"
            /\ \A k \in known : (b = k[1]) => result.val.tag = k[2]
            /\ (b \notin {k[1] : k \in known}) =>
                  (result.val.tag = "Unknown" /\ result.val.id = b)

C7_Witness ==
    /\ Returned
    /\ op = "model"
    /\ rx = <<153, 35>>
    /\ result = Ok([tag |-> "Unknown", id |-> 153])

\* the frame each operation is specified to write
C8_SpecifiedFrame ==
    CASE op = "version" -> <<86>>
      [] op = "model" -> <<109>>
      [] op = "is_alignment_complete" -> <<74>>
      [] op = "is_goto_in_progress" -> <<76>>
      [] op = "location" -> <<119>>
      [] op = "datetime" -> <<104>>
      [] op = "device_version" ->
            <<80, 1,
              CASE arg.device = "MainBoard" -> 1
                [] arg.device = "HandController" -> 4
                [] arg.device = "AzmRaMotor" -> 16
                [] arg.device = "AltDecMotor" -> 17
                [] arg.device = "GPSUnit" -> 176
                [] arg.device = "RTC" -> 178,
              254, 0, 0, 0, 2>>
      [] op = "set_location" ->
            <<87>> \o dec_dms(arg.latitude) \o dec_dms(arg.longitude)
      [] op = "set_datetime" ->
            <<72, arg.hour, arg.minutes, arg.seconds, arg.month, arg.day, arg.year,
              IF arg.zone < 0 THEN arg.zone + 256 ELSE arg.zone,
              IF arg.daylight_saving THEN 1 ELSE 0>>
      [] OTHER -> <<>>

\* C8: each operation writes exactly its specified request frame and nothing
\* else: one command byte for the six queries, the 8-byte addressed frame for
\* device_version, 'W' + latitude DMS + longitude DMS for set_location, and
\* 'H' + hour, minutes, seconds, month, day, year, zone, DST for set_datetime.
C8_RequestFrames ==
    (op # "none") =>
        /\ Len(tx) <= Len(C8_SpecifiedFrame)
        /\ tx = SubSeq(C8_SpecifiedFrame, 1, Len(tx))
        /\ wcalls <= Len(C8_SpecifiedFrame)
        /\ (pc # "write" /\ txerr = "none") => tx = C8_SpecifiedFrame
        /\ Len(C8_SpecifiedFrame) =
              (IF op = "device_version" THEN 8
               ELSE IF op \in {"set_location", "set_datetime"} THEN 9 ELSE 1)
        /\ \A i \in 1..Len(tx) : tx[i] \in Byte

C8_Witness ==
    /\ Returned
    /\ op = "device_version"
    /\ arg.device = "AltDecMotor"
    /\ tx = <<80, 1, 17, 254, 0, 0, 0, 2>>
    /\ result.kind = "Ok"

\* C9: with a '#' after the status byte s, is_goto_in_progress() returns true
\* if and only if s is ASCII '1' and is_alignment_complete() returns true if
\* and only if s is 0x01; neither returns an error for any s.
C9_StatusDecoding ==
    (/\ Returned /\ op \in {"is_goto_in_progress", "is_alignment_complete"}
     /\ NoTransportError /\ rx[2] = 35) =>
        /\ result.kind = "Ok"
        /\ (op = "is_goto_in_progress") => (result.val = TRUE <=> rx[1] = 49)
        /\ (op = "is_alignment_complete") => (result.val = TRUE <=> rx[1] = 1)
        /\ result.val \in BOOLEAN

C9_Witness ==
    /\ Returned
    /\ op = "is_alignment_complete"
    /\ rx = <<49, 35>>
    /\ result = Ok(FALSE)

\* C10: datetime() on an 8-byte payload b followed by '#' returns hour=b[0],
\* minutes=b[1], seconds=b[2], month=b[3], day=b[4], year=b[5], zone=b[6] as a
\* signed 8-bit value and daylight_saving = (b[7] = 1), for every payload.
C10_DatetimeDecoding ==
    (Returned /\ op = "datetime" /\ NoTransportError /\ rx[9] = 35) =>
        /\ result.kind = "Ok"
        /\ result.val.hour = rx[1]
        /\ result.val.minutes = rx[2]
        /\ result.val.seconds = rx[3]
        /\ result.val.month = rx[4]
        /\ result.val.day = rx[5]
        /\ result.val.year = rx[6]
        /\ result.val.zone \in -128..127
        /\ (result.val.zone - rx[7]) % 256 = 0
        /\ result.val.daylight_saving = (rx[8] = 1)

C10_Witness ==
    /\ Returned
    /\ op = "datetime"
    /\ ack = 35
    /\ rx[7] = 251
    /\ rx[8] = 2
    /\ result.kind = "Ok"
    /\ result.val.zone = -5
    /\ result.val.daylight_saving = FALSE

\* the bytes C11 gives for v, a number of 1/Scale degree: floor(|v|) degrees,
\* the whole minutes of the rest, the remaining seconds rounded half up, and
\* the sign byte
C11_Claimed(v) ==
    LET m == IF v < 0 THEN -v ELSE v
        degrees == m \div Scale
        \* minutes = (|v| - degrees) * 60 = minNum / Scale
        minNum == (m % Scale) * 60
        \* (minutes - floor(minutes)) * 60 = secNum / Scale
        secNum == (minNum % Scale) * 60
        seconds == IF 2 * (secNum % Scale) >= Scale
                   THEN secNum \div Scale + 1 ELSE secNum \div Scale
    IN  <<degrees, minNum \div Scale, seconds, IF v >= 0 THEN 1 ELSE 0>>

\* C11: dec_dms(v) returns [degrees, floor(minutes), seconds, sign] with sign
\* 0x01 for a non-negative v and 0x00 for a negative one, degrees = floor(|v|),
\* minutes = (|v| - degrees) * 60 and seconds = round((minutes -
\* floor(minutes)) * 60), for every v of the Location range; dec_dms(-33.865)
\* is [33, 51, 54, 0x00] and dec_dms(0.0) is [0, 0, 0, 0x01].
C11_DecDms ==
    (op = "set_location") =>
        /\ Len(frame) = 9
        /\ SubSeq(frame, 2, 5) = C11_Claimed(arg.latitude)
        /\ SubSeq(frame, 6, 9) = C11_Claimed(arg.longitude)
        /\ (arg.latitude = -487656) => SubSeq(frame, 2, 5) = <<33, 51, 54, 0>>
        /\ (arg.latitude = 0) => SubSeq(frame, 2, 5) = <<0, 0, 0, 1>>

C11_Witness ==
    /\ Returned
    /\ op = "set_location"
    /\ arg.latitude = -487656
    /\ tx = <<87, 33, 51, 54, 0, 151, 12, 36, 1>>
    /\ result = Ok(Unit)

\* C12: within every public operation call the request is written exactly
\* once (every word of the frame once, in order, followed by one flush) and
\* strictly before the first read; no read precedes the write, no write
\* follows a read, and the request is never sent again on a failure.
C12_WrittenOnceBeforeReading ==
    /\ wcalls <= Len(frame)
    /\ fcalls <= 1
    /\ flushes <= fcalls
    /\ Len(tx) <= wcalls
    /\ tx = SubSeq(frame, 1, Len(tx))
    /\ (pc \in {"idle", "write", "flush"}) => (rcalls = 0 /\ polls = 0 /\ rx = <<>>)
    /\ (fcalls = 1) => (tx = frame /\ wcalls = Len(frame))
    /\ (Reading \/ rcalls > 0 \/ polls > 0) =>
          (tx = frame /\ wcalls = Len(frame) /\ fcalls = 1 /\ flushes = 1)
    /\ (Returned /\ result.kind \in {"Read", "UnexpectedResponse"}) =>
          (tx = frame /\ wcalls = Len(frame) /\ fcalls = 1)

\* a datetime() whose fourth read fails: the one-byte request was written once
C12_Witness ==
    /\ Returned
    /\ op = "datetime"
    /\ result.kind = "Read"
    /\ rcalls = 4
    /\ tx = <<104>>
    /\ wcalls = 1
    /\ fcalls = 1

\* C13: on success each operation consumes exactly its response length
\* including the ack and not one byte more: version 3, device_version 3,
\* model 2, is_alignment_complete 2, is_goto_in_progress 2, location 9,
\* datetime 9, set_location 1, set_datetime 1.
C13_SuccessConsumesResponseLength ==
    (Returned /\ result.kind = "Ok") =>
        /\ nread =
              (CASE op = "version" -> 3
                 [] op = "device_version" -> 3
                 [] op = "model" -> 2
                 [] op = "is_alignment_complete" -> 2
                 [] op = "is_goto_in_progress" -> 2
                 [] op = "location" -> 9
                 [] op = "datetime" -> 9
                 [] op = "set_location" -> 1
                 [] op = "set_datetime" -> 1)
        /\ rcalls = nread
        /\ rx[nread] = 35

C13_Witness ==
    /\ Returned
    /\ op = "set_datetime"
    /\ result = Ok(Unit)
    /\ rx = <<35>>

\* C14: over any sequence of operations without transport errors, with a
\* hand controller that answers every request with its full-length payload
\* followed either by '#' or by a byte that is not '#' and one error code, the
\* reader has consumed exactly all bytes sent so far at every operation
\* boundary, so every operation, also one issued right after an
\* UnexpectedResponse, reads only the bytes of its own response.
C14_StreamInSync ==
    /\ (pc \in {"idle", "write", "flush", "done"}) => wire = <<>>
    /\ (Reading \/ Returned) =>
          LET answer == rx \o wire
              n == PayloadLen(op)
          IN  /\ Len(answer) \in {n + 1, n + 2}
              /\ (Len(answer) = n + 1) <=> (answer[n + 1] = 35)
              /\ (op = "location") => SubSeq(answer, 1, 8) = devloc
              /\ (op = "datetime") => SubSeq(answer, 1, 8) = devtime
    /\ Returned =>
          /\ result.kind \in {"Ok", "UnexpectedResponse"}
          /\ (result.kind = "Ok") => rx[Len(rx)] = 35
          /\ (op = "datetime" /\ ack = 35) => result = datetime_value(devtime)
          /\ (op = "location" /\ ack = 35) => result = location_value(devloc)

\* a location() issued right after an UnexpectedResponse reads the location
\* set before it
C14_Witness ==
    /\ Returned
    /\ prev = "UnexpectedResponse"
    /\ op = "location"
    /\ lastloc = [latitude |-> 4, longitude |-> 2177424]
    /\ rx = <<0, 0, 1, 1, 151, 12, 36, 1, 35>>
    /\ result.kind = "Ok"
    /\ wire = <<>>

\* C15: every public operation terminates provided each blocking transport
\* call eventually completes with a byte or an error, after at most payload
\* length + 2 successful reads.  There is no timeout: a would-block changes
\* nothing but the poll count of the same read, and an operation returns only
\* when a transport call has completed, so a read that reports would-block
\* forever keeps the operation from returning.
C15_TerminatesWithoutTimeout ==
    /\ [](nread <= PayloadLen(op) + 2 /\ rcalls <= PayloadLen(op) + 2)
    /\ (pc \in {"write", "flush", "payload", "ack", "drain"}) ~> Returned
    /\ [][(polls' > polls) =>
            /\ pc' = pc /\ Reading
            /\ polls' = polls + 1
            /\ UNCHANGED <<op, arg, frame, tx, flushes, wcalls, fcalls, txerr, buffer, ack,
                           rx, rcalls, rxerr, result>>]_<<pc, polls>>
    /\ [][(pc # "done" /\ pc' = "done") =>
            (rcalls' = rcalls + 1 \/ wcalls' = wcalls + 1 \/ fcalls' = fcalls + 1)]_<<pc, polls>>

\* location() has read its payload and a bad ack and polls for the error code
C15_Witness ==
    /\ pc = "drain"
    /\ op = "location"
    /\ polls > 0
    /\ nread = 9
    /\ result = NoResult

\* C16: for every Location whose latitude and longitude are non-zero whole
\* numbers of arcseconds within range, the 8 payload bytes set_location(loc)
\* writes, fed back as the response to location() with a '#' ack, give a
\* Location with the same sign and the same magnitude in arcseconds on each
\* axis.
C16_LocationRoundTrip ==
    (/\ Returned /\ op = "location" /\ ack = 35
     /\ lastloc \in DevLocations
     /\ lastloc.latitude # 0 /\ lastloc.latitude % (Scale \div 3600) = 0
     /\ lastloc.longitude # 0 /\ lastloc.longitude % (Scale \div 3600) = 0) =>
        /\ result.kind = "Ok"
        /\ result.val.latitude * (Scale \div 3600) = lastloc.latitude
        /\ result.val.longitude * (Scale \div 3600) = lastloc.longitude

\* C17: for every input within the Location invariant, dec_dms produces a
\* minutes byte in 0..59, a seconds byte in 0..59 and a degrees byte equal to
\* floor(|value|).
C17_DmsBytesInRange ==
    (op = "set_location") =>
        \A i \in {2, 6} :
            LET v == IF i = 2 THEN arg.latitude ELSE arg.longitude
            IN  /\ frame[i] = (IF v < 0 THEN -v ELSE v) \div Scale
                /\ frame[i + 1] \in 0..59
                /\ frame[i + 2] \in 0..59

\* C18: for every DateTime dt, the 8 payload bytes set_datetime(dt) writes
\* after 'H', fed back as the response to datetime() with a '#' ack, give a
\* DateTime equal to dt field by field, negative zones and the DST flag
\* included.
C18_DatetimeRoundTrip ==
    (Returned /\ op = "datetime" /\ ack = 35 /\ lasttime \in DevDateTimes) =>
        /\ result.kind = "Ok"
        /\ result.val.hour = lasttime.hour
        /\ result.val.minutes = lasttime.minutes
        /\ result.val.seconds = lasttime.seconds
        /\ result.val.zone = lasttime.zone
        /\ result.val.daylight_saving = lasttime.daylight_saving
        /\ result.val.year = lasttime.year
        /\ result.val.month = lasttime.month
        /\ result.val.day = lasttime.day

C18_Witness ==
    /\ Returned
    /\ op = "datetime"
    /\ ack = 35
    /\ lasttime \in DevDateTimes
    /\ lasttime.zone = -128
    /\ lasttime.daylight_saving
    /\ rx = <<23, 59, 30, 12, 31, 255, 128, 1, 35>>
    /\ result = Ok(lasttime)

=============================================================================
